---------------------------- MODULE Spec2Model ----------------------------
(***************************************************************************)
(* Cost estimates for lattice reduction (estimator/reduction.py).          *)
(*                                                                         *)
(* The program is a library of pure numeric functions over Sage reals.     *)
(* Reals are modelled in fixed point:                                      *)
(*   - natural logarithms and exponentials in units of 1/ONE (ONE = 10^8); *)
(*   - exponents of two (log2 of a cost) in units of 1/LG (LG = 10^6);     *)
(*   - root-Hermite factors as (delta - 1) in units of 4*10^-11, doubled,  *)
(*     so that an odd value 2v-1 stands for the floating-point number      *)
(*     just below the grid value v (see DeltaFP below).                    *)
(* All intermediate products stay below 2^31.                              *)
(***************************************************************************)
EXTENDS Integers, Sequences, FiniteSets, TLC

(***************************************************************************)
(* Fixed-point arithmetic.                                                 *)
(***************************************************************************)
ONE == 10^8
LG == 10^6

Abs(x) == IF x < 0 THEN -x ELSE x
Max(x, y) == IF x >= y THEN x ELSE y
Min(x, y) == IF x <= y THEN x ELSE y

\* F applied to the value of e: e is evaluated once, however often F uses it
With(e, F(_)) == CHOOSE r \in {F(x) : x \in {e}} : TRUE

MaxInt == (2^30 - 1) + 2^30

\* the digit base of the long multiplication below: 2 * Radix(c) * c <= 2^31
Radix(c) ==
    IF c <= 67108864 THEN 16
    ELSE IF c <= 134217728 THEN 8
    ELSE IF c <= 268435456 THEN 4
    ELSE 2

\* <<q, r>> with a*b = q*c + r and 0 <= r < c, for a, b >= 0 and 0 < c <= 2^29,
\* by long multiplication over the digits of b: no intermediate value reaches 2^31.
RECURSIVE MulDivQR(_, _, _)
MulDivQR(a, b, c) ==
    IF a = 0 \/ b = 0 THEN <<0, 0>>
    ELSE IF a <= MaxInt \div b THEN <<(a * b) \div c, (a * b) % c>>
    ELSE With(MulDivQR(a, b \div Radix(c), c), LAMBDA h :
         With(Radix(c) * h[2] + (a % c) * (b % Radix(c)), LAMBDA r2 :
              <<Radix(c) * h[1] + (a \div c) * (b % Radix(c)) + (r2 \div c), r2 % c>>))

\* a*b/c rounded towards minus infinity, for values of any sign, c > 0
MulDivV(a, b, c) ==
    IF (a >= 0) = (b >= 0)
    THEN MulDivQR(Abs(a), Abs(b), c)[1]
    ELSE With(MulDivQR(Abs(a), Abs(b), c), LAMBDA qr :
              IF qr[2] = 0 THEN -qr[1] ELSE -qr[1] - 1)

\* the same for expressions
MulDiv(a, b, c) ==
    With(a, LAMBDA va : With(b, LAMBDA vb : With(c, LAMBDA vc : MulDivV(va, vb, vc))))

RECURSIVE Pow2(_)
Pow2(k) == IF k = 0 THEN 1 ELSE 2 * Pow2(k - 1)

\* floor(log2 n) for an integer n >= 1
RECURSIVE FloorLog2(_)
FloorLog2(n) == IF n < 2 THEN 0 ELSE 1 + FloorLog2(n \div 2)

\* ln 2, ln pi, ln(2 pi e) and ln(4/3), ONE-scaled
LN2 == 69314718
LNPI == 114472989
LN2PIE == 283787707
LN43 == 28768207

\* sum of z^m/m over the odd m from the given one to 17, zp = z^m, zz = z^2
RECURSIVE AtanhSeries(_, _, _)
AtanhSeries(zp, zz, m) ==
    IF m > 17 \/ zp = 0 THEN 0
    ELSE (zp \div m) + With(MulDivV(zp, zz, ONE), LAMBDA zq : AtanhSeries(zq, zz, m + 2))

\* ln(n) * ONE for an integer n >= 1: n = 2^k * (1+z)/(1-z), ln n = k ln 2 + 2 atanh z
LnSeries(n) ==
    With(n, LAMBDA v :
    With(FloorLog2(v), LAMBDA k :
    With(MulDivV(v - Pow2(k), ONE, v + Pow2(k)), LAMBDA z :
    With(MulDivV(z, z, ONE), LAMBDA zz :
         k * LN2 + 2 * AtanhSeries(z, zz, 1)))))

\* the logarithms of the small integers, computed once
LnSpan == 2048
LnTable == [n \in 1..LnSpan |-> LnSeries(n)]
Ln(n) == IF n <= LnSpan THEN LnTable[n] ELSE LnSeries(n)

\* log2(n) * LG for an integer n >= 1
Log2(n) == MulDiv(Ln(n), LG, LN2)

\* floor(x / m) for any sign of x, m > 0
FloorDiv(x, m) == IF x >= 0 THEN x \div m ELSE -((-x + m - 1) \div m)

(***************************************************************************)
(* Root-Hermite factors.  A factor delta is the integer (delta-1)*5*10^10: *)
(* an even value 2v is the grid value v*4*10^-11; an odd value 2v-1 is the *)
(* floating-point number one unit in the last place below that grid value. *)
(* The code only ever produces even values; a caller of beta may pass any. *)
(***************************************************************************)
\* variant of small: the values at 25 and 28 exchanged
small_swapped ==
    << <<2, 2190>>, <<5, 1862>>, <<10, 1616>>, <<15, 1485>>,
       <<20, 1420>>, <<25, 1331>>, <<28, 1342>>, <<40, 1295>> >>

\* the breakpoint table `small`: <<beta, (delta-1)*10^5>>
small ==
    << <<2, 2190>>, <<5, 1862>>, <<10, 1616>>, <<15, 1485>>,
       <<20, 1420>>, <<25, 1342>>, <<28, 1331>>, <<40, 1295>> >>

\* RR(x) of a table entry given in units of 10^-5
RR5(h) == h * 500000

\* product of two factors in units of 4*10^-11
MulS(x, y) == MulDiv(x, y, 250000000) \div 100

\* RR(beta/(2 pi e) * (pi beta)^(1/beta)) ^ (1/(2 (beta-1))), as
\* exp(L) - 1 = L + L^2/2 + L^3/6 + L^4/24 with
\* L = (ln beta - ln(2 pi e) + ln(pi beta)/beta) / (2 (beta-1))
ClosedForm(beta) ==
    With(beta, LAMBDA b :
    With(Ln(b), LAMBDA lnb :
    With(MulDivV(lnb - LN2PIE + ((LNPI + lnb) \div b), 125, b - 1), LAMBDA L :
    With(MulS(L, L) \div 2, LAMBDA t2 :
    With(MulS(t2, L) \div 3, LAMBDA t3 :
         2 * (L + t2 + t3 + (MulS(t3, L) \div 4)))))))

\* the first table value whose next breakpoint exceeds beta (the for loop)
RECURSIVE SmallLookup(_, _)
SmallLookup(beta, i) ==
    IF i > Len(small) THEN "None"
    ELSE IF small[i][1] > beta THEN RR5(small[i - 1][2])
    ELSE SmallLookup(beta, i + 1)

_delta(beta) ==
    With(beta, LAMBDA b :
         IF b <= 2 THEN RR5(2190)
         ELSE IF b < 40 THEN SmallLookup(b, 2)
         ELSE IF b = 40 THEN RR5(small[Len(small)][2])
         ELSE ClosedForm(b))

\* beta = ZZ(round(beta)) of an integer block size is the block size itself
delta(beta) == _delta(beta)

(***************************************************************************)
(* beta(delta): the bracketing root finder and the fallback search.        *)
(***************************************************************************)
BracketLo == 40
BracketHi == 65536

\* delta on the real axis just right of an integer n >= 40: the closed form
\* (at 40 itself the table value applies, and the function jumps)
RightOf(n) == ClosedForm(n)

\* the largest n in lo..hi-1 with RightOf(n) >= w, given RightOf(lo) >= w > RightOf(hi)
RECURSIVE Bisect(_, _, _)
Bisect(lo, hi, w) ==
    IF hi - lo <= 1 THEN lo
    ELSE With((lo + hi) \div 2, LAMBDA mid :
              IF RightOf(mid) >= w THEN Bisect(mid, hi, w) ELSE Bisect(lo, mid, w))

\* find_root(lambda beta: RR(_delta(beta) - delta), 40, 2^16, maxiter=500):
\* raises RuntimeError when the iteration does not converge (converges = FALSE)
\* or when f is positive at both ends; otherwise returns the root, at n + pos:
\*   "at"  the root is the integer n,
\*   "eps" the root lies in (n, n + 10^-8],
\*   "mid" the root lies in (n + 10^-8, n + 1).
\* Called with f(40) >= 0 only.
Root(n, pos) == [raised |-> FALSE, n |-> n, pos |-> pos]
RootError == [raised |-> TRUE, n |-> 0, pos |-> "none"]
find_root(w, converges) ==
    IF ~converges THEN RootError
    ELSE IF _delta(BracketHi) > w THEN RootError
    ELSE IF _delta(BracketLo) = w THEN Root(BracketLo, "at")
    ELSE IF _delta(BracketHi) = w THEN Root(BracketHi, "at")
    ELSE IF RightOf(BracketLo) <= w THEN Root(BracketLo, "eps")
    ELSE With(Bisect(BracketLo, BracketHi, w), LAMBDA n :
         With(RightOf(n), LAMBDA g :
              IF g = w THEN Root(n, "at")
              ELSE IF g - w = 1 THEN Root(n, "eps")
              ELSE Root(n, "mid")))

\* variant of CeilMinusEps: ceil(beta) of a root that the solver reports just above n
CeilPlain(root) == root.n + 1

\* ceil(beta - 1e-8) of a root
CeilMinusEps(root) == IF root.pos = "mid" THEN root.n + 1 ELSE root.n

\* variant of _beta_find_root: the root finder is never tried
_beta_find_root_simple(w, converges) == 0

\* _beta_find_root up to its return or its except clause: the block size
\* returned, or 0 when the except clause is entered and _beta_simple is to run
_beta_find_root(w, converges) ==
    IF _delta(BracketLo) < w THEN BracketLo
    ELSE With(find_root(w, converges), LAMBDA r :
              IF r.raised THEN 0 ELSE CeilMinusEps(r))

(***************************************************************************)
(* Costs.  A cost is poly + the sum of 2^(e/LG) over e in exps, or +oo.    *)
(* Optional arguments are <<>> (None) or <<x>>.                            *)
(***************************************************************************)
None == <<>>
Some(x) == <<x>>

\* Python truth value of an optional integer argument
Truthy(o) == o # None /\ o[1] # 0

Num(p, e) == [poly |-> p, exps |-> e, inf |-> FALSE]
oo == [poly |-> 0, exps |-> <<>>, inf |-> TRUE]

\* k * x for an integer k >= 1
Scale(k, x) == [poly |-> k * x.poly, exps |-> [i \in DOMAIN x.exps |-> x.exps[i] + Log2(k)], inf |-> x.inf]

\* x + y
Plus(x, y) == [poly |-> x.poly + y.poly, exps |-> x.exps \o y.exps, inf |-> x.inf \/ y.inf]

\* c * x for a coefficient c given as c * 10^8 and a LG-scaled x
Coef(c8, x) == MulDiv(x, c8, ONE)

Models == {"BDGL16", "LaaMosPol14", "CheNgu12", "ABFKSW20", "ABLR21", "ADPS16", "Kyber", "GJ21"}

\* variants of svp_repeat: the boundary beta = d counted as beta < d, and
\* the number of blocks d - beta in place of d
svp_repeat_le(beta, d) == IF beta <= d THEN 8 * d ELSE 1
svp_repeat_blocks(beta, d) == IF beta < d THEN 8 * (d - beta) ELSE 1

\* ReductionCost.svp_repeat
svp_repeat(beta, d) == IF beta < d THEN 8 * d ELSE 1

LLL(d, B) == IF Truthy(B) THEN d * d * d * B[1] * B[1] ELSE d * d * d

\* BDGL16._small and BDGL16._asymptotic
BDGL16_small(beta, d, B) ==
    Num(LLL(d, B), <<387000 * beta + 16400000 + Log2(svp_repeat(beta, d))>>)

BDGL16_asymptotic(beta, d, B) ==
    Num(LLL(d, B), <<292000 * beta + 16400000 + Log2(svp_repeat(beta, d))>>)

BDGL16(beta, d, B) ==
    IF beta <= 90 THEN BDGL16_small(beta, d, B) ELSE BDGL16_asymptotic(beta, d, B)

LaaMosPol14(beta, d, B) ==
    Num(LLL(d, B), <<265000 * beta + 16400000 + Log2(svp_repeat(beta, d))>>)

\* the exponent `cost` of CheNgu12: log(beta) is the natural logarithm
CheNgu12Cost(beta) ==
    Coef(27018878, MulDiv(Ln(beta), beta, 100)) - Coef(101920505, beta * LG)
        + 16102531 + Log2(100)

CheNgu12(beta, d, B) ==
    Num(LLL(d, B), <<Log2(svp_repeat(beta, d)) + CheNgu12Cost(beta)>>)

ABFKSW20Cost(beta, d) ==
    IF 3 * beta >= 2 * d \/ beta <= 92
    THEN Coef(18390000, beta * Log2(beta)) - 995000 * beta + 16250000 + Log2(64)
    ELSE Coef(12500000, beta * Log2(beta)) - 547000 * beta + 10400000 + Log2(64)

ABFKSW20(beta, d, B) ==
    Num(LLL(d, B), <<Log2(svp_repeat(beta, d)) + ABFKSW20Cost(beta, d)>>)

ABLR21Cost(beta, d) ==
    IF 3 * beta >= 2 * d \/ beta <= 97
    THEN Coef(18390000, beta * Log2(beta)) - 1077000 * beta + 29120000 + Log2(64)
    ELSE Coef(12500000, beta * Log2(beta)) - 654000 * beta + 25840000 + Log2(64)

ABLR21(beta, d, B) ==
    Num(LLL(d, B), <<Log2(svp_repeat(beta, d)) + ABLR21Cost(beta, d)>>)

Return(v) == [kind |-> "return", val |-> v]
Raise(e) == [kind |-> "raise", exc |-> e]
NoRet == [kind |-> "none"]

ADPS16Modes == ("classical" :> 292000) @@ ("quantum" :> 265000) @@ ("paranoid" :> 207500)

\* variant of ADPS16.__call__: an unknown mode falls back to "classical"
ADPS16_default(beta, d, B, mode) ==
    Return(Num(0, <<(IF mode \in DOMAIN ADPS16Modes THEN ADPS16Modes[mode] ELSE 292000) * beta>>))

\* ADPS16.__call__
ADPS16(beta, d, B, mode) ==
    IF mode \notin {"classical", "quantum", "paranoid"}
    THEN Raise("ValueError")
    ELSE Return(Num(0, <<ADPS16Modes[mode] * beta>>))

\* Kyber.NN_AGPS: a * 10^8 and b * 10^6
NN_AGPS ==
    "all_pairs-classical" :> [a |-> 42150693, b |-> 20166968] @@
    "all_pairs-dw" :> [a |-> 31717244, b |-> 25298290] @@
    "all_pairs-g" :> [a |-> 31552858, b |-> 22478747] @@
    "all_pairs-ge19" :> [a |-> 32228953, b |-> 36117464] @@
    "all_pairs-naive_classical" :> [a |-> 41862513, b |-> 9899383] @@
    "all_pairs-naive_quantum" :> [a |-> 31401513, b |-> 7694660] @@
    "all_pairs-t_count" :> [a |-> 31553283, b |-> 20878594] @@
    "list_decoding-classical" :> [a |-> 29880261, b |-> 26011121] @@
    "list_decoding-dw" :> [a |-> 26944796, b |-> 28972373] @@
    "list_decoding-g" :> [a |-> 26937451, b |-> 26925140] @@
    "list_decoding-ge19" :> [a |-> 26952104, b |-> 35471321] @@
    "list_decoding-naive_classical" :> [a |-> 29731304, b |-> 21142124] @@
    "list_decoding-naive_quantum" :> [a |-> 26743168, b |-> 18720681] @@
    "list_decoding-t_count" :> [a |-> 26945737, b |-> 25913747] @@
    "random_buckets-classical" :> [a |-> 35586144, b |-> 23082528] @@
    "random_buckets-dw" :> [a |-> 30704200, b |-> 25581969] @@
    "random_buckets-g" :> [a |-> 30610965, b |-> 22928236] @@
    "random_buckets-ge19" :> [a |-> 31089688, b |-> 36021300] @@
    "random_buckets-naive_classical" :> [a |-> 35448284, b |-> 15288785] @@
    "random_buckets-naive_quantum" :> [a |-> 30211422, b |-> 11151745] @@
    "random_buckets-t_count" :> [a |-> 30614770, b |-> 21418301]

(***************************************************************************)
(* The state: the objects every call shares, and the call in progress.     *)
(***************************************************************************)
VARIABLES
    nn_agps,   \* the class attribute Kyber.NN_AGPS, a dict shared by all calls
    instances, \* the attributes set on each instance of class RC
    history,   \* the calls completed before the one in progress
    call,      \* the entry point called and its arguments
    pc,        \* "call", a loop of _beta_simple, or "done"
    beta_,     \* the local variable beta of _beta_simple
    ret        \* the value returned or the exception raised, once pc = "done"

vars == <<nn_agps, instances, history, call, pc, beta_, ret>>

\* floor(2 ** (0.2075 * k)) for k = 0, 1, ...
SieveYieldTable ==
    <<1, 1, 1, 1, 1, 2, 2, 2, 3, 3, 4, 4, 5, 6, 7, 8, 9, 11, 13, 15, 17,
      20, 23, 27, 31, 36, 42, 48, 56, 64, 74, 86, 99, 115, 132, 153, 177,
      204, 236, 272, 315, 363, 420, 485, 560, 646, 747, 862, 995, 1150,
      1327, 1533, 1770, 2044, 2360, 2725, 3147, 3634, 4196, 4845, 5595,
      6460, 7460, 8614, 9946, 11485, 13261, 15313, 17682, 20417, 23575,
      27222, 31433, 36295, 41909, 48392, 55878, 64521, 74502, 86026, 99334,
      114699, 132441, 152928, 176584, 203899, 235440, 271859, 313911,
      362469, 418538, 483280, 558036, 644356, 744029, 859119, 992013,
      1145463, 1322650, 1527244, 1763487, 2036273, 2351255, 2714960,
      3134926, 3619853, 4179792, 4826346, 5572912, 6434961, 7430356,
      8579725, 9906884, 11439336, 13208835, 15252051, 17611323, 20335540,
      23481154, 27113349, 31307392, 36150192, 41742104, 48199004, 55654692,
      64263668, 74204328, 85682663, 98936532>>

SieveYield(k) == IF k < 0 THEN 0 ELSE SieveYieldTable[k + 1]

\* log2 of the progressive overhead C, given as C * 100
Log2C(C) == Log2(C) - Log2(100)

\* Kyber.d4f, LG-scaled
d4f(beta) ==
    With(Ln(beta) - LN2PIE, LAMBDA den :
         IF den <= 0 THEN 0 ELSE Max(MulDivV(LN43, beta * LG, den), 0))

NNAlias(nn) ==
    IF nn = "classical" THEN "list_decoding-classical"
    ELSE IF nn = "quantum" THEN "list_decoding-dw"
    ELSE nn

\* the default C = 5.46, as C * 100
DefaultC == 546

\* Kyber.__call__: log2 of gate_count for a known nn
KyberGateCount(beta, nn, C) ==
    Log2C(C) + Coef(nn_agps[nn].a, beta * LG - d4f(beta)) + nn_agps[nn].b

\* Kyber.__call__: log2 of svp_calls
KyberSvpCalls(beta, d, C) == Log2C(C) + Log2(Max(d - beta, 1))

\* variant of Kyber.__call__: block size 20 is delegated to CheNgu12 too
Kyber_le20(beta, d, B, nn, C) ==
    IF beta <= 20 THEN Return(CheNgu12(beta, d, B))
    ELSE IF NNAlias(nn) \notin DOMAIN nn_agps THEN Raise("KeyError")
    ELSE Return(Num(LLL(d, B),
                    <<KyberSvpCalls(beta, d, C) + KyberGateCount(beta, NNAlias(nn), C)>>))

\* Kyber.__call__ (GJ21 inherits it)
Kyber(beta, d, B, nn, C) ==
    IF beta < 20 THEN Return(CheNgu12(beta, d, B))
    ELSE IF NNAlias(nn) \notin DOMAIN nn_agps THEN Raise("KeyError")
    ELSE Return(Num(LLL(d, B),
                    <<KyberSvpCalls(beta, d, C) + KyberGateCount(beta, NNAlias(nn), C)>>))

\* self(beta, d, B, ...) of the cost model m; opt is ADPS16's mode or
\* Kyber's and GJ21's nn
CostModel(m, beta, d, B, opt, C) ==
    CASE m = "BDGL16" -> Return(BDGL16(beta, d, B))
      [] m = "LaaMosPol14" -> Return(LaaMosPol14(beta, d, B))
      [] m = "CheNgu12" -> Return(CheNgu12(beta, d, B))
      [] m = "ABFKSW20" -> Return(ABFKSW20(beta, d, B))
      [] m = "ABLR21" -> Return(ABLR21(beta, d, B))
      [] m = "ADPS16" -> ADPS16(beta, d, B, opt)
      [] m \in {"Kyber", "GJ21"} -> Kyber(beta, d, B, opt, C)

\* self(beta, d, B=B) and self(beta, d): keyword arguments at their defaults
DefaultCall(m, beta, d, B) == CostModel(m, beta, d, B, "classical", DefaultC).val

\* the triple returned by the short_vectors methods; rho is rho * 10^4 and
\* gh holds <<sieve_dim, beta>> when rho is multiplied by gh(dummy_r) / gh(beta_r)
Triple(rho, cost, N) == [rho |-> rho, gh |-> <<>>, cost |-> cost, N |-> N]
Ceil(n, y) == (n + y - 1) \div y

\* variant of short_vectors: the repeated LLL costed with the caller's B
short_vectors_LLL_B(m, beta, d, N, B, preprocess) ==
    With(IF preprocess THEN DefaultCall(m, beta, d, B) ELSE Num(0, <<>>), LAMBDA cost :
         IF N = Some(1) THEN Return(Triple(10000, Plus(cost, Num(1, <<>>)), 1))
         ELSE With(IF N = None THEN 1000 ELSE N[1], LAMBDA n :
              Return(Triple(20000, Plus(cost, Num(n * LLL(d, B), <<>>)), n))))

\* ReductionCost.short_vectors
short_vectors(m, beta, d, N, B, preprocess) ==
    With(IF preprocess THEN DefaultCall(m, beta, d, B) ELSE Num(0, <<>>), LAMBDA cost :
         IF N = Some(1) THEN Return(Triple(10000, Plus(cost, Num(1, <<>>)), 1))
         ELSE With(IF N = None THEN 1000 ELSE N[1], LAMBDA n :
              Return(Triple(20000, Plus(cost, Num(n * LLL(d, None), <<>>)), n))))

\* ReductionCost.short_vectors_simple
short_vectors_simple(m, beta, d, N, B, preprocess) ==
    IF N = Some(1)
    THEN IF preprocess
         THEN Return(Triple(10000, DefaultCall(m, beta, d, B), 1))
         ELSE Return(Triple(10000, Num(1, <<>>), 1))
    ELSE With(IF N = None THEN 1000 ELSE N[1], LAMBDA n :
         Return(Triple(10000, Scale(n, DefaultCall(m, beta, d, B)), n)))

\* the common tail of the sieve strategies: c = N / floor(2 ** (0.2075 * dim))
\* and the triple scaled by ceil(c)
SieveTail(dim, N, rho, once) ==
    With(SieveYield(dim), LAMBDA y :
         IF y = 0 THEN Raise("ZeroDivisionError")
         ELSE With(Ceil(IF N = None THEN y ELSE N[1], y), LAMBDA c :
              Return(Triple(rho, Scale(c, once), c * y))))

\* ReductionCost._short_vectors_sieve
_short_vectors_sieve(m, beta, d, N, B, preprocess) ==
    IF N = Some(1)
    THEN IF preprocess
         THEN Return(Triple(10000, DefaultCall(m, beta, d, B), 1))
         ELSE Return(Triple(10000, Num(1, <<>>), 1))
    ELSE SieveTail(beta, N, 11547, DefaultCall(m, beta, d, None))

\* Kyber.short_vectors
Kyber_short_vectors(m, beta, d, N, B, preprocess) ==
    With(beta - (d4f(beta) \div LG), LAMBDA beta_r :
         IF N = Some(1)
         THEN IF preprocess
              THEN Return(Triple(10000, DefaultCall(m, beta, d, B), 1))
              ELSE Return(Triple(10000, Num(1, <<>>), 1))
         ELSE SieveTail(beta_r, N, 11547, DefaultCall(m, beta, d, None)))

\* GJ21.short_vectors: sieve_dim
GJ21SieveDim(beta, d, a, C) ==
    With(beta - (d4f(beta) \div LG), LAMBDA beta_r :
         IF beta < d
         THEN Min(d, beta_r + FloorDiv(MulDivV(Log2C(C) + Log2(d - beta), ONE, a), LG))
         ELSE beta_r)

\* GJ21.short_vectors: the tail after sieve_dim and rho are known
GJ21Tail(m, beta, d, N, preprocess, B, nn, C, sieve_dim) ==
    IF N = Some(1)
    THEN IF preprocess
         THEN Return(Triple(10000, DefaultCall(m, beta, d, B), 1))
         ELSE Return(Triple(10000, Num(1, <<>>), 1))
    ELSE IF SieveYield(sieve_dim) = 0 THEN Raise("ZeroDivisionError")
    ELSE IF nn \notin DOMAIN nn_agps THEN Raise("KeyError")
    ELSE SieveTail(sieve_dim, N, 11547,
                   Plus(DefaultCall(m, beta, d, None),
                        Num(0, <<Log2C(C) + Coef(nn_agps[nn].a, sieve_dim * LG) + nn_agps[nn].b>>)))

\* GJ21.short_vectors
GJ21_short_vectors(m, beta, d, N, preprocess, B, nn, C) ==
    IF beta < d /\ NNAlias(nn) \notin DOMAIN nn_agps THEN Raise("KeyError")
    ELSE With(GJ21SieveDim(beta, d, IF beta < d THEN nn_agps[NNAlias(nn)].a ELSE ONE, C),
              LAMBDA sieve_dim :
         With(GJ21Tail(m, beta, d, N, preprocess, B, NNAlias(nn), C, sieve_dim), LAMBDA r :
              IF r.kind = "return" /\ r.val.rho = 11547 /\ sieve_dim > beta
              THEN Return([r.val EXCEPT !.gh = <<sieve_dim, beta>>])
              ELSE r))

\* the short_vectors attribute of each class
ShortVectors(m, beta, d, N, B, preprocess, nn, C) ==
    CASE m \in {"BDGL16", "LaaMosPol14", "ADPS16"} -> _short_vectors_sieve(m, beta, d, N, B, preprocess)
      [] m \in {"CheNgu12", "ABFKSW20", "ABLR21"} -> short_vectors(m, beta, d, N, B, preprocess)
      [] m = "Kyber" -> Kyber_short_vectors(m, beta, d, N, B, preprocess)
      [] m = "GJ21" -> GJ21_short_vectors(m, beta, d, N, preprocess, B, nn, C)

\* the record Cost(**fields, **kwds)
Cost(fields, kwds) == fields @@ kwds

\* variant of cost: `if not predicate`, which takes None for false
cost_not_predicate(m, beta, d, B, predicate, kwds) ==
    With(DefaultCall(m, beta, d, B), LAMBDA c :
         With(Cost([rop |-> c, red |-> c, delta |-> delta(beta), beta |-> beta, d |-> d], kwds),
              LAMBDA rec :
              IF predicate # "True" THEN [rec EXCEPT !.red = oo, !.rop = oo] ELSE rec))

\* cost(cost_model, beta, d, B, predicate, **kwds)
cost(m, beta, d, B, predicate, kwds) ==
    With(DefaultCall(m, beta, d, B), LAMBDA c :
         With(Cost([rop |-> c, red |-> c, delta |-> delta(beta), beta |-> beta, d |-> d], kwds),
              LAMBDA rec :
              IF predicate # "None" /\ predicate # "True"
              THEN [rec EXCEPT !.red = oo, !.rop = oo]
              ELSE rec))

\* bounds of the block sizes and root-Hermite factors drawn
MaxBeta == 100
FarSpan == 1
Jitter == 1

\* bounds of the other arguments
MaxDim == 4
MidDim == 60
WideDim == 150
MaxB == 8
MaxSvBeta == 48
SvMidDim == 30
SvB == 2
MaxN == 1000

Betas == 2..MaxBeta
FarBetas == (BracketHi - FarSpan)..(BracketHi + FarSpan)
Dims == (1..MaxDim) \cup {MidDim, WideDim}
Bs == {None, Some(0), Some(MaxB)}
Options == {"classical", "quantum", "paranoid", "list_decoding-ge19", "bogus"}
OptionsOf(m) == IF m \in {"ADPS16", "Kyber", "GJ21"} THEN Options ELSE {"classical"}
SvBetas == 2..MaxSvBeta
SvDims == {1, SvMidDim, MidDim}
SvNs == {None, Some(1), Some(2), Some(MaxN)}
SvBs == {None, Some(SvB)}
Predicates == {"None", "True", "False"}
Kwds == {<<>>, "tag" :> "usvp"}

\* requests to beta: the factor of a block size, the floating-point number
\* just below it, the grid values around it, and the documented examples;
\* and the factors of the block sizes around the end of the bracket
DeltaRequests ==
    {delta(b) + j : b \in Betas, j \in (-Jitter)..Jitter}
        \cup {RR5(1210), RR5(930), RR5(240)}
FarRequests == {delta(b) : b \in FarBetas}

\* the calls drawn: the entry point and its arguments
DeltaCalls == [op : {"delta"}, beta : Betas \cup FarBetas]
BetaCalls ==
    [op : {"beta"}, delta : DeltaRequests, converges : BOOLEAN]
        \cup [op : {"beta"}, delta : FarRequests, converges : {TRUE}]
LLLCalls == [op : {"LLL"}, d : Dims, B : Bs]
SvpRepeatCalls == [op : {"svp_repeat"}, beta : Betas, d : Dims]
ModelCalls(m) ==
    [op : {"model"}, model : {m}, beta : Betas, d : Dims, B : Bs, opt : OptionsOf(m),
     C : IF m \in {"Kyber", "GJ21"} THEN {DefaultC, 2 * DefaultC} ELSE {DefaultC}]
ShortVectorsCalls(m, st) ==
    [op : {"short_vectors"}, strategy : {st}, model : {m}, beta : SvBetas, d : SvDims,
     N : SvNs, B : SvBs, preprocess : BOOLEAN,
     nn : IF m = "GJ21" /\ st = "class" THEN {"classical", "list_decoding-ge19", "bogus"}
          ELSE {"classical"},
     C : {DefaultC}]
CostCalls ==
    [op : {"cost"}, model : Models, beta : Betas, d : {MidDim},
     B : {None, Some(MaxB)}, predicate : Predicates, kwds : Kwds]

\* the module loaded: the class body of Kyber has set NN_AGPS, class RC has
\* instantiated each model, and no instance has an attribute of its own
Constructed ==
    /\ nn_agps = NN_AGPS
    /\ instances = [m \in Models |-> {}]
    /\ history = <<>>

Init ==
    /\ \/ call \in DeltaCalls
       \/ call \in BetaCalls
       \/ call \in LLLCalls
       \/ call \in SvpRepeatCalls
       \/ \E m \in Models : call \in ModelCalls(m)
       \/ \E m \in Models, st \in {"class", "simple"} : call \in ShortVectorsCalls(m, st)
       \/ call \in CostCalls
    /\ pc = "call"
    /\ beta_ = 0
    /\ ret = NoRet
    /\ Constructed

\* ReductionCost.delta
Delta ==
    /\ pc = "call" /\ call.op = "delta"
    /\ ret' = Return(delta(call.beta))
    /\ pc' = "done"
    /\ UNCHANGED <<call, beta_>>
    /\ UNCHANGED <<nn_agps, instances, history>>

\* ReductionCost.beta: _beta_find_root returns, or enters _beta_simple
\* with beta = ZZ(40)
Beta ==
    /\ pc = "call" /\ call.op = "beta"
    /\ \E r \in {_beta_find_root(call.delta, call.converges)} :
          IF r = 0
          THEN /\ pc' = "double" /\ beta_' = 40 /\ ret' = ret
          ELSE /\ pc' = "done" /\ beta_' = beta_ /\ ret' = Return(r)
    /\ UNCHANGED call
    /\ UNCHANGED <<nn_agps, instances, history>>

\* _beta_simple: while _delta(2 * beta) > delta: beta *= 2
SimpleDouble ==
    /\ pc = "double"
    /\ IF _delta(2 * beta_) > call.delta
       THEN /\ beta_' = 2 * beta_ /\ pc' = pc
       ELSE /\ beta_' = beta_ /\ pc' = "plus10"
    /\ UNCHANGED <<call, ret>>
    /\ UNCHANGED <<nn_agps, instances, history>>

\* _beta_simple: while _delta(beta + 10) > delta: beta += 10
SimplePlus10 ==
    /\ pc = "plus10"
    /\ IF _delta(beta_ + 10) > call.delta
       THEN /\ beta_' = beta_ + 10 /\ pc' = pc
       ELSE /\ beta_' = beta_ /\ pc' = "plus1"
    /\ UNCHANGED <<call, ret>>
    /\ UNCHANGED <<nn_agps, instances, history>>

\* variant of SimplePlus1: the loop is left on _delta(beta) <= delta
SimplePlus1Le ==
    /\ pc = "plus1"
    /\ IF _delta(beta_) <= call.delta
       THEN /\ ret' = Return(beta_) /\ pc' = "done" /\ beta_' = beta_
       ELSE /\ beta_' = beta_ + 1 /\ pc' = pc /\ ret' = ret
    /\ UNCHANGED call
    /\ UNCHANGED <<nn_agps, instances, history>>

\* _beta_simple: while True: if _delta(beta) < delta: break; beta += 1
SimplePlus1 ==
    /\ pc = "plus1"
    /\ IF _delta(beta_) < call.delta
       THEN /\ ret' = Return(beta_) /\ pc' = "done" /\ beta_' = beta_
       ELSE /\ beta_' = beta_ + 1 /\ pc' = pc /\ ret' = ret
    /\ UNCHANGED call
    /\ UNCHANGED <<nn_agps, instances, history>>

\* variant of ModelCall: Kyber.__call__ resolves an alias by storing the
\* entry under the name given, in the table every instance shares
ModelCallAliasStored ==
    /\ pc = "call" /\ call.op = "model"
    /\ ret' = CostModel(call.model, call.beta, call.d, call.B, call.opt, call.C)
    /\ nn_agps' = IF /\ call.model \in {"Kyber", "GJ21"} /\ call.beta >= 20
                     /\ call.opt \in {"classical", "quantum"}
                  THEN (call.opt :> nn_agps[NNAlias(call.opt)]) @@ nn_agps
                  ELSE nn_agps
    /\ pc' = "done"
    /\ UNCHANGED <<call, beta_>>
    /\ UNCHANGED <<instances, history>>

\* a cost model called: BDGL16()(beta, d, B), ADPS16()(beta, d, B, mode), ...
ModelCall ==
    /\ pc = "call" /\ call.op = "model"
    /\ ret' = CostModel(call.model, call.beta, call.d, call.B, call.opt, call.C)
    /\ pc' = "done"
    /\ UNCHANGED <<call, beta_>>
    /\ UNCHANGED <<nn_agps, instances, history>>

\* ReductionCost.LLL
LLLCall ==
    /\ pc = "call" /\ call.op = "LLL"
    /\ ret' = Return(LLL(call.d, call.B))
    /\ pc' = "done"
    /\ UNCHANGED <<call, beta_>>
    /\ UNCHANGED <<nn_agps, instances, history>>

\* ReductionCost.svp_repeat
SvpRepeatCall ==
    /\ pc = "call" /\ call.op = "svp_repeat"
    /\ ret' = Return(svp_repeat(call.beta, call.d))
    /\ pc' = "done"
    /\ UNCHANGED <<call, beta_>>
    /\ UNCHANGED <<nn_agps, instances, history>>

\* model.short_vectors(...) or model.short_vectors_simple(...)
ShortVectorsCall ==
    /\ pc = "call" /\ call.op = "short_vectors"
    /\ ret' = IF call.strategy = "simple"
              THEN short_vectors_simple(call.model, call.beta, call.d, call.N, call.B, call.preprocess)
              ELSE ShortVectors(call.model, call.beta, call.d, call.N, call.B, call.preprocess,
                                call.nn, call.C)
    /\ pc' = "done"
    /\ UNCHANGED <<call, beta_>>
    /\ UNCHANGED <<nn_agps, instances, history>>

\* cost(cost_model, beta, d, B, predicate, **kwds)
CostCall ==
    /\ pc = "call" /\ call.op = "cost"
    /\ ret' = Return(cost(call.model, call.beta, call.d, call.B, call.predicate, call.kwds))
    /\ pc' = "done"
    /\ UNCHANGED <<call, beta_>>
    /\ UNCHANGED <<nn_agps, instances, history>>

Next ==
    \/ Delta
    \/ Beta
    \/ SimpleDouble
    \/ SimplePlus10
    \/ SimplePlus1
    \/ LLLCall
    \/ SvpRepeatCall
    \/ ModelCall
    \/ ShortVectorsCall
    \/ CostCall

Spec == Init /\ [][Next]_vars

\* the calls of beta alone; a call started runs to its return: the
\* interpreter does not stop inside a loop
BetaInit ==
    /\ call \in BetaCalls
    /\ pc = "call"
    /\ beta_ = 0
    /\ ret = NoRet
    /\ Constructed

BetaNext ==
    \/ Beta
    \/ SimpleDouble
    \/ SimplePlus10
    \/ SimplePlus1

BetaFairSpec == BetaInit /\ [][BetaNext]_vars /\ WF_vars(BetaNext)

\* a session: calls made one after the other on the shared instances of
\* class RC, in any order
SessionLen == 2

SessionCalls ==
    [op : {"delta"}, beta : {2, 40, 50}]
        \cup [op : {"beta"}, delta : {delta(50)}, converges : BOOLEAN]
        \cup [op : {"LLL"}, d : {MidDim}, B : {None, Some(MaxB)}]
        \cup [op : {"svp_repeat"}, beta : {50}, d : {MaxDim, MidDim}]
        \cup UNION {[op : {"model"}, model : {m}, beta : {10, 50}, d : {MidDim}, B : {None},
                     opt : OptionsOf(m) \ {"paranoid", "list_decoding-ge19"}, C : {DefaultC}]
                    : m \in Models}
        \cup UNION {[op : {"short_vectors"}, strategy : {"class"}, model : {m}, beta : {30},
                     d : {MidDim}, N : {None, Some(1)}, B : {None}, preprocess : {TRUE},
                     nn : IF m = "GJ21" THEN {"classical", "bogus"} ELSE {"classical"},
                     C : {DefaultC}]
                    : m \in Models}
        \cup [op : {"cost"}, model : {"CheNgu12", "Kyber"}, beta : {50}, d : {MidDim},
              B : {None}, predicate : {"None", "False"}, kwds : {<<>>}]

SessionInit ==
    /\ call \in SessionCalls
    /\ pc = "call"
    /\ beta_ = 0
    /\ ret = NoRet
    /\ Constructed

\* the caller makes the next call on the same instances
NextCall ==
    /\ pc = "done"
    /\ Len(history) + 1 < SessionLen
    /\ history' = Append(history, [call |-> call, ret |-> ret])
    /\ call' \in SessionCalls
    /\ pc' = "call"
    /\ beta_' = 0
    /\ ret' = NoRet
    /\ UNCHANGED <<nn_agps, instances>>

SessionNext ==
    \/ Delta
    \/ Beta
    \/ SimpleDouble
    \/ SimplePlus10
    \/ SimplePlus1
    \/ LLLCall
    \/ SvpRepeatCall
    \/ ModelCall
    \/ ShortVectorsCall
    \/ CostCall
    \/ NextCall

SessionSpec == SessionInit /\ [][SessionNext]_vars

(***************************************************************************)
(* Properties.                                                             *)
(***************************************************************************)
Done == pc = "done"
Returned == pc = "done" /\ ret.kind = "return"
IsCall(o) == call.op = o
InSimple == pc \in {"double", "plus10", "plus1"}

\* delta of the block sizes drawn, computed once
DeltaOf == [b \in Betas \cup FarBetas |-> delta(b)]

C2_Predicate ==
    (Done /\ IsCall("cost")) =>
        /\ ret.kind = "return"
        /\ DOMAIN ret.val = {"rop", "red", "delta", "beta", "d"} \cup DOMAIN call.kwds
        /\ ret.val.delta = delta(call.beta)
        /\ ret.val.beta = call.beta
        /\ ret.val.d = call.d
        /\ \A k \in DOMAIN call.kwds : ret.val[k] = call.kwds[k]
        /\ IF call.predicate = "False"
           THEN ret.val.rop = oo /\ ret.val.red = oo
           ELSE /\ ret.val.rop = DefaultCall(call.model, call.beta, call.d, call.B)
                /\ ret.val.red = ret.val.rop
                /\ ~ret.val.rop.inf

C2_Witness ==
    /\ Done /\ IsCall("cost") /\ call.predicate = "False" /\ call.kwds # <<>>
    /\ ret.val.rop = oo /\ ret.val.red = oo /\ ret.val.tag = "usvp"
    /\ ret.val.delta = delta(call.beta)

\* C3: ADPS16 with a mode other than "classical", "quantum", "paranoid"
\* raises ValueError for every beta, d and B; with one of them it returns
\* 2^(c beta), c = 0.2920, 0.2650, 0.2075
C3_ADPS16Mode ==
    (Done /\ IsCall("model") /\ call.model = "ADPS16") =>
        CASE call.opt = "classical" -> ret = Return(Num(0, <<292000 * call.beta>>))
          [] call.opt = "quantum" -> ret = Return(Num(0, <<265000 * call.beta>>))
          [] call.opt = "paranoid" -> ret = Return(Num(0, <<207500 * call.beta>>))
          [] OTHER -> ret = Raise("ValueError")

C3_Witness ==
    /\ Done /\ IsCall("model") /\ call.model = "ADPS16" /\ call.opt = "bogus"
    /\ ret = Raise("ValueError")

\* C4 as stated: an unknown nearest-neighbor name given to Kyber, to GJ21 or
\* to GJ21.short_vectors raises an error, whatever beta, d and N are
C4_UnknownNNRaises ==
    (Done /\ \/ IsCall("model") /\ call.model \in {"Kyber", "GJ21"}
                   /\ NNAlias(call.opt) \notin DOMAIN NN_AGPS
             \/ IsCall("short_vectors") /\ call.model = "GJ21" /\ call.strategy = "class"
                   /\ NNAlias(call.nn) \notin DOMAIN NN_AGPS)
        => ret.kind = "raise"

C4_Witness ==
    /\ Done /\ IsCall("model") /\ call.model = "Kyber" /\ call.opt = "bogus"
    /\ call.beta < 20 /\ ret = Return(CheNgu12(call.beta, call.d, call.B))

\* the cost x is at most the cost y (costs LLL + 2^e of one d and B)
Le(x, y) == x.poly = y.poly /\ x.exps[1] <= y.exps[1]

\* the same call with the next block size
NextBeta == CostModel(call.model, call.beta + 1, call.d, call.B, call.opt, call.C)

\* the steps beta -> beta + 1 inside one regime of the model
C5_Regime ==
    /\ call.beta + 1 # call.d
    /\ CASE call.model = "BDGL16" -> call.beta # 90
         [] call.model \in {"CheNgu12", "ABFKSW20"} -> call.beta >= 16
         [] call.model = "ABLR21" -> call.beta >= 21
         [] call.model \in {"Kyber", "GJ21"} ->
                call.beta >= 20 /\ (call.beta >= call.d \/ call.d - call.beta >= 7)
         [] OTHER -> TRUE

C6_RootWithinEps(b, w) ==
    \/ w = delta(b) - 1
    \/ b = BracketLo /\ RightOf(BracketLo) <= w /\ w < delta(BracketLo)

C7_Result ==
    (Done /\ IsCall("beta")) =>
        /\ ret.kind = "return"
        /\ beta_ # 0 =>
              /\ ret.val = beta_ /\ ret.val >= 40
              /\ delta(ret.val) < call.delta
              /\ ret.val > 40 => delta(ret.val - 1) >= call.delta

\* C7: a failure of the root finder is caught and the simple search starts
\* at 40
C7_Caught ==
    (pc = "call" /\ IsCall("beta") /\ ~(delta(BracketLo) < call.delta)
        /\ find_root(call.delta, call.converges).raised)
        => (pc' = "double" /\ beta_' = 40)

C8_DeltaNonIncreasing ==
    /\ (Done /\ IsCall("delta")) =>
          /\ ret.kind = "return" /\ ret.val \in Nat
          /\ ret.val = delta(call.beta)
          /\ ret.val <= RR5(2190)
          /\ delta(call.beta + 1) \in Nat /\ ret.val >= delta(call.beta + 1)
    /\ InSimple => _delta(beta_) >= _delta(beta_ + 1)

C8_Witness ==
    /\ Done /\ IsCall("delta") /\ call.beta = 40
    /\ ret.val = RR5(1295) /\ ret.val > delta(41)

\* the oracle exponent of each model
OracleExponent(m, beta, d, nn, C) ==
    CASE m = "BDGL16" -> (IF beta <= 90 THEN 387000 ELSE 292000) * beta + 16400000
      [] m = "LaaMosPol14" -> 265000 * beta + 16400000
      [] m = "CheNgu12" -> CheNgu12Cost(beta)
      [] m = "ABFKSW20" -> ABFKSW20Cost(beta, d)
      [] m = "ABLR21" -> ABLR21Cost(beta, d)
      [] m \in {"Kyber", "GJ21"} ->
             IF beta < 20 THEN CheNgu12Cost(beta) ELSE KyberGateCount(beta, NNAlias(nn), C)

\* d^3 B^2 when B is given and not zero, d^3 otherwise
C9_LLL == IF call.B # None /\ call.B[1] # 0
          THEN call.d * call.d * call.d * call.B[1] * call.B[1]
          ELSE call.d * call.d * call.d

\* log2 of 8d if beta < d, of 1 otherwise
C9_Repeat == Log2(IF call.beta < call.d THEN 8 * call.d ELSE 1)

\* ADPS16 does not depend on d and B
C9_ADPS16 ==
    (Done /\ IsCall("model") /\ call.model = "ADPS16") =>
        ret = CostModel("ADPS16", call.beta, 1, None, call.opt, call.C)

\* C9 as stated: every model but ADPS16 returns
\* LLL(d, B) + svp_repeat(beta, d) * oracle cost
C9_RepeatTimesOracleAll ==
    (Returned /\ IsCall("model") /\ call.model # "ADPS16") =>
        ret.val = Num(C9_LLL, <<C9_Repeat
                     + OracleExponent(call.model, call.beta, call.d, call.opt, call.C)>>)

\* C9: CheNgu12, ABFKSW20, ABLR21, BDGL16, LaaMosPol14, and Kyber and GJ21
\* below beta = 20, return LLL(d, B) + svp_repeat(beta, d) * oracle cost;
\* Kyber and GJ21 from beta = 20 on return LLL(d, B) + C max(d - beta, 1) *
\* gate count; ADPS16 returns the same for every d and B
C9_CostShape ==
    /\ C9_ADPS16
    /\ (Returned /\ IsCall("model") /\ call.model # "ADPS16") =>
          ret.val = Num(C9_LLL,
                        <<(IF call.model \in {"Kyber", "GJ21"} /\ call.beta >= 20
                           THEN Log2C(call.C) + Log2(Max(call.d - call.beta, 1))
                           ELSE C9_Repeat)
                          + OracleExponent(call.model, call.beta, call.d, call.opt, call.C)>>)

C9_Witness ==
    /\ Returned /\ IsCall("model") /\ call.model = "Kyber" /\ call.beta >= 20
    /\ call.beta < call.d /\ call.B = Some(MaxB)
    /\ ret.val.exps[1] # C9_Repeat
                          + OracleExponent(call.model, call.beta, call.d, call.opt, call.C)

\* C10 as stated: short_vectors returns a triple with N at least the N
\* asked for, for every model and strategy, beta >= 2, d >= 1 and N >= 1
C10_ShortVectorsReturn ==
    (Done /\ IsCall("short_vectors") /\ NNAlias(call.nn) \in DOMAIN NN_AGPS) =>
        /\ ret.kind = "return"
        /\ call.N # None => ret.val.N >= call.N[1]

C10_Witness ==
    /\ Done /\ IsCall("short_vectors") /\ call.model = "Kyber" /\ call.strategy = "class"
    /\ call.N = Some(2) /\ SieveYield(call.beta - (d4f(call.beta) \div LG)) = 0
    /\ ret = Raise("ZeroDivisionError")

\* C11: svp_repeat(beta, d) returns 8 * d whenever beta < d and exactly 1
\* whenever beta >= d, in particular 1 at the boundary beta = d
C11_SvpRepeat ==
    (Done /\ IsCall("svp_repeat")) =>
        /\ call.beta < call.d => ret = Return(8 * call.d)
        /\ call.beta >= call.d => ret = Return(1)

C11_Witness ==
    Done /\ IsCall("svp_repeat") /\ call.beta = call.d /\ ret = Return(1)

\* C12 as stated: LLL(d, B) returns d^3 B^2 whenever B is given, B = 0
\* included, and d^3 only when B is not given
C12_LLLGiven ==
    (Done /\ IsCall("LLL")) =>
        ret = Return(IF call.B = None
                     THEN call.d * call.d * call.d
                     ELSE call.d * call.d * call.d * call.B[1] * call.B[1])

C12_Witness ==
    /\ Done /\ IsCall("LLL") /\ call.B = Some(0) /\ call.d = MidDim
    /\ ret = Return(call.d * call.d * call.d)

\* the preprocessing cost of a short_vectors call: model(beta, d, B) if
\* preprocess, else 0
C13_PreprocessCost ==
    IF call.preprocess
    THEN CostModel(call.model, call.beta, call.d, call.B, "classical", DefaultC).val
    ELSE Num(0, <<>>)

\* C13: the LLL-repeat short_vectors of CheNgu12, ABFKSW20 and ABLR21
\* returns (1, preprocessCost + 1, 1) for N = 1, and otherwise rho = 2, the N
\* asked for (1000 when N is omitted) and preprocessCost + N * LLL(d)
C13_LLLRepeat ==
    (Done /\ IsCall("short_vectors") /\ call.strategy = "class"
          /\ call.model \in {"CheNgu12", "ABFKSW20", "ABLR21"}) =>
        /\ ret.kind = "return"
        /\ ret.val.gh = <<>>
        /\ IF call.N = Some(1)
           THEN /\ ret.val.rho = 10000
                /\ ret.val.N = 1
                /\ ret.val.cost = [C13_PreprocessCost EXCEPT !.poly = @ + 1]
           ELSE /\ ret.val.rho = 20000
                /\ ret.val.N = (IF call.N = None THEN 1000 ELSE call.N[1])
                /\ ret.val.cost =
                      [C13_PreprocessCost EXCEPT
                          !.poly = @ + ret.val.N * call.d * call.d * call.d]

C13_Witness ==
    /\ Done /\ IsCall("short_vectors") /\ call.strategy = "class"
    /\ call.model = "CheNgu12" /\ call.N = None /\ call.preprocess
    /\ call.B = Some(SvB) /\ call.d = MidDim
    /\ ret.val.rho = 20000 /\ ret.val.N = 1000
    /\ ret.val.cost.poly = 1000 * MidDim * MidDim * MidDim + LLL(MidDim, call.B)

\* C14: after any sequence of calls on the shared instances, the table
\* Kyber.NN_AGPS and the instances are as constructed, and a call made
\* again with the same arguments returns what it returned before
C14_Immutable ==
    /\ nn_agps = NN_AGPS
    /\ instances = [m \in Models |-> {}]
    /\ Done => \A i \in DOMAIN history : history[i].call = call => history[i].ret = ret

C14_Witness ==
    /\ Done /\ history # <<>>
    /\ history[1].call = call /\ history[1].ret = ret
    /\ IsCall("model") /\ call.model = "Kyber" /\ call.beta >= 20 /\ call.opt = "classical"
    /\ ret.kind = "return"
    /\ nn_agps = NN_AGPS

\* C15: below beta = 20 Kyber and GJ21 return CheNgu12(beta, d, B) for every
\* d, B, nn and C, an nn the table does not hold included; from beta = 20 on
\* they return LLL(d, B) + C max(d - beta, 1) * C 2^(a (beta - d4f(beta)) + b)
\* with (a, b) looked up under nn
C15_Delegates ==
    (Done /\ IsCall("model") /\ call.model \in {"Kyber", "GJ21"}) =>
        IF call.beta < 20
        THEN ret = Return(Num(C9_LLL, <<C9_Repeat + CheNgu12Cost(call.beta)>>))
        ELSE IF NNAlias(call.opt) \in DOMAIN NN_AGPS
        THEN ret = Return(Num(C9_LLL,
                 <<Log2C(call.C) + Log2(Max(call.d - call.beta, 1))
                   + Log2C(call.C)
                   + Coef(NN_AGPS[NNAlias(call.opt)].a, call.beta * LG - d4f(call.beta))
                   + NN_AGPS[NNAlias(call.opt)].b>>))
        ELSE ret = Raise("KeyError")

C15_Witness ==
    /\ Done /\ IsCall("model") /\ call.model = "GJ21" /\ call.beta = 19
    /\ call.opt = "bogus" /\ call.C = 2 * DefaultC /\ call.d = MidDim
    /\ ret = Return(CheNgu12(call.beta, call.d, call.B))

\* the sieve dimension of a short_vectors call, the number of sieves ceil(c)
\* and the base cost model(beta, d, B) with the caller's B
C16_SieveDim ==
    CASE call.model = "Kyber" -> call.beta - (d4f(call.beta) \div LG)
      [] call.model = "GJ21" ->
             GJ21SieveDim(call.beta, call.d,
                          IF call.beta < call.d THEN NN_AGPS[NNAlias(call.nn)].a ELSE ONE,
                          call.C)
      [] OTHER -> call.beta

C16_Sieves ==
    IF call.N = Some(1) THEN 1
    ELSE Ceil(IF call.N = None THEN SieveYield(C16_SieveDim) ELSE call.N[1],
              SieveYield(C16_SieveDim))

C16_BaseCost == CostModel(call.model, call.beta, call.d, call.B, "classical", DefaultC).val

C16_HasBaseCost ==
    \E i \in DOMAIN ret.val.cost.exps :
        ret.val.cost.exps[i] = C16_BaseCost.exps[1] + Log2(C16_Sieves)

\* C16 as stated: in the sieve-based short_vectors of BDGL16, LaaMosPol14,
\* ADPS16, Kyber and GJ21 the cost returned holds the base cost
\* model(beta, d, B), with the caller's B, when preprocess is true, and does
\* not hold it when preprocess is false, for N = 1, N omitted and N > 1
C16_PreprocessDecides ==
    (Returned /\ IsCall("short_vectors") /\ call.strategy = "class"
              /\ call.model \in {"BDGL16", "LaaMosPol14", "ADPS16", "Kyber", "GJ21"}) =>
        IF call.preprocess
        THEN /\ C16_HasBaseCost
             /\ ret.val.cost.poly = C16_Sieves * C16_BaseCost.poly
        ELSE /\ ~C16_HasBaseCost
             /\ ret.val.cost.poly <= 1

C16_Witness ==
    /\ Returned /\ IsCall("short_vectors") /\ call.strategy = "class"
    /\ call.model = "GJ21" /\ call.N = Some(MaxN) /\ ~call.preprocess
    /\ call.B = Some(SvB) /\ call.d = MidDim
    /\ C16_HasBaseCost
    /\ ret.val.cost.poly = C16_Sieves * LLL(call.d, None)

\* a call of GJ21.short_vectors that does not fail on its nn
C17_Call ==
    /\ Done /\ IsCall("short_vectors") /\ call.strategy = "class" /\ call.model = "GJ21"
    /\ NNAlias(call.nn) \in DOMAIN NN_AGPS

\* the local sieve_dim of that call
C17_SieveDim ==
    GJ21SieveDim(call.beta, call.d,
                 IF call.beta < call.d THEN NN_AGPS[NNAlias(call.nn)].a ELSE ONE, call.C)

\* C17 as stated: in GJ21.short_vectors sieve_dim <= d for every beta >= 2
\* and d >= 1, beta >= d included, and rho is 1.1547 gh(unit) / gh(achieved)
\* exactly when sieve_dim > beta, 1.1547 otherwise, and 1 for N = 1
C17_SieveDimAtMostD ==
    C17_Call =>
        /\ C17_SieveDim <= call.d
        /\ Returned =>
              IF call.N = Some(1)
              THEN ret.val.rho = 10000 /\ ret.val.gh = <<>>
              ELSE /\ ret.val.rho = 11547
                   /\ ret.val.gh = IF C17_SieveDim > call.beta
                                   THEN <<C17_SieveDim, call.beta>>
                                   ELSE <<>>

C17_Witness ==
    /\ C17_Call /\ Returned /\ call.beta = MaxSvBeta /\ call.d = SvMidDim
    /\ call.N = Some(2)
    /\ C17_SieveDim > call.d
    /\ ret.val.N = SieveYield(C17_SieveDim)

=============================================================================
